---- MODULE Spec2Model ----
(***************************************************************************)
(* Leaderboard crawl orchestrator of substack_scraper.py: the durable CSV  *)
(* store, the Dedup Set loaded from it, discovery per source, batches of   *)
(* candidates (open, navigate, extract, filter), persistence and the       *)
(* quota, over several runs of the program against the same store.         *)
(***************************************************************************)
EXTENDS Integers, Sequences, FiniteSets, TLC

\* ------------------------------------------------------------------ bounds
MaxNames == 3       \* profile handles that exist on the site
MaxListed == 2      \* handles one leaderboard reveals
MaxSources == 2     \* lines of leaderboard_urls.txt
MaxRuns == 2        \* runs of main() against the same output file
MaxQuota == 2       \* largest max_profiles tried
MaxBatch == 2       \* largest concurrent_profiles tried
MaxIOFailures == 1  \* appends that fail with an I/O error
MaxRevealed == 10   \* profile links a leaderboard page comes to hold while it is scrolled

\* ------------------------------------------------------------ identities
AllNames ==
  <<"alice", "Alice", "bob", "Bob", "carol", "Carol", "dave", "Dave", "erin", "Erin",
    "frank", "Frank">>

\* the first n handles
Names(n) == {AllNames[i] : i \in 1..n}

\* str.lower() on the strings it is applied to: handles, the first field of a
\* row, platform names, category slugs
lower(s) ==
  CASE s = "Alice" -> "alice"
    [] s = "Bob" -> "bob"
    [] s = "Carol" -> "carol"
    [] s = "Dave" -> "dave"
    [] s = "Erin" -> "erin"
    [] s = "Frank" -> "frank"
    [] s = "Username" -> "username"
    [] s = "Twitter" -> "twitter"
    [] s = "Food" -> "food"
    [] OTHER -> s

\* "https://substack.com/@<handle>", kept as the two sides of its "/@"
ProfileUrl(u) == <<"https://substack.com", u>>

\* profile_url.split("/@")[-1]
UsernameOf(url) == url[Len(url)]

\* ------------------------------------------------------------ categories
AllUrls ==
  << <<"https:", "", "substack.com", "leaderboard", "technology", "rising">>,
     <<"https:", "", "substack.com", "leaderboard", "crypto", "rising">>,
     <<"https:", "", "substack.com", "explore">> >>

\* the first n lines of the source list, in file order
Sources(n) == SubSeq(AllUrls, 1, n)

CATEGORY_TITLES ==
  [slug \in {"technology", "culture", "food", "explore"} |->
     CASE slug = "technology" -> "Technology"
       [] slug = "culture" -> "Culture"
       [] slug = "food" -> "Food & Drink"
       [] OTHER -> "Explore"]

\* str.title() on the slugs that are not in the table
title(slug) == CASE slug = "crypto" -> "Crypto" [] OTHER -> slug

\* the table looked up with the slug as written
get_category_title_as_written(url_slug) ==
  IF url_slug \in DOMAIN CATEGORY_TITLES
    THEN CATEGORY_TITLES[url_slug]
    ELSE title(url_slug)

\* CATEGORY_TITLES.get(url_slug.lower(), url_slug.title())
get_category_title(url_slug) ==
  IF lower(url_slug) \in DOMAIN CATEGORY_TITLES
    THEN CATEGORY_TITLES[lower(url_slug)]
    ELSE title(url_slug)

\* leaderboard_url.split("/")[-2] if "/rising" in leaderboard_url else "explore"
category_slug(url) ==
  IF \E i \in 2..Len(url) : url[i] = "rising"
    THEN url[Len(url) - 1]
    ELSE "explore"

\* ------------------------------------------------------- subscriber text
\* A text is a sequence of one-character strings.
Digits == {"0", "1", "2", "3", "4", "5", "6", "7", "8", "9"}

DigitVal(c) ==
  CASE c = "0" -> 0 [] c = "1" -> 1 [] c = "2" -> 2 [] c = "3" -> 3
    [] c = "4" -> 4 [] c = "5" -> 5 [] c = "6" -> 6 [] c = "7" -> 7
    [] c = "8" -> 8 [] OTHER -> 9

UpperCase ==
  <<"A", "B", "C", "D", "E", "F", "G", "H", "I", "J", "K", "L", "M",
    "N", "O", "P", "Q", "R", "S", "T", "U", "V", "W", "X", "Y", "Z">>

LowerCase ==
  <<"a", "b", "c", "d", "e", "f", "g", "h", "i", "j", "k", "l", "m",
    "n", "o", "p", "q", "r", "s", "t", "u", "v", "w", "x", "y", "z">>

\* the lower-case letter of each capital
LowerOf ==
  [c \in {UpperCase[i] : i \in 1..26} |-> LowerCase[CHOOSE i \in 1..26 : UpperCase[i] = c]]

lower_char(c) == IF c \in DOMAIN LowerOf THEN LowerOf[c] ELSE c

lower_text(t) == [i \in 1..Len(t) |-> lower_char(t[i])]

RECURSIVE replace(_, _)
\* str.replace(pat, ""): every non-overlapping occurrence, left to right
replace(t, pat) ==
  IF Len(t) < Len(pat) THEN t
  ELSE IF SubSeq(t, 1, Len(pat)) = pat
    THEN replace(SubSeq(t, Len(pat) + 1, Len(t)), pat)
    ELSE <<t[1]>> \o replace(Tail(t), pat)

RECURSIVE lstrip(_)
lstrip(t) == IF t # <<>> /\ t[1] = " " THEN lstrip(Tail(t)) ELSE t

RECURSIVE rstrip(_)
rstrip(t) ==
  IF t # <<>> /\ t[Len(t)] = " " THEN rstrip(SubSeq(t, 1, Len(t) - 1)) ELSE t

strip(t) == lstrip(rstrip(t))

contains(t, c) == \E i \in 1..Len(t) : t[i] = c

RECURSIVE pow10(_)
pow10(n) == IF n = 0 THEN 1 ELSE 10 * pow10(n - 1)

RECURSIVE digits_value(_)
digits_value(t) ==
  IF t = <<>> THEN 0 ELSE 10 * digits_value(SubSeq(t, 1, Len(t) - 1)) + DigitVal(t[Len(t)])

all_digits(t) == \A i \in 1..Len(t) : t[i] \in Digits

\* the index of the first c in t, Len(t) + 1 when there is none
first(t, c) ==
  IF contains(t, c)
    THEN CHOOSE i \in 1..Len(t) : t[i] = c /\ \A j \in 1..(i - 1) : t[j] # c
    ELSE Len(t) + 1

\* a numeric literal without its sign
unsigned(t) == IF t # <<>> /\ t[1] \in {"+", "-"} THEN Tail(t) ELSE t

negative(t) == t # <<>> /\ t[1] = "-"

\* digits, with single underscores between digits
digits_ok(t) ==
  /\ t # <<>>
  /\ \A i \in 1..Len(t) : t[i] \in Digits \cup {"_"}
  /\ t[1] \in Digits
  /\ t[Len(t)] \in Digits
  /\ \A i \in 1..(Len(t) - 1) : ~(t[i] = "_" /\ t[i + 1] = "_")

\* int(text): surrounding blanks, a sign, digits; anything else is a ValueError
int_ok(t) == digits_ok(unsigned(strip(t)))

int_value(t) ==
  LET n == digits_value(replace(unsigned(strip(t)), <<"_">>))
  IN IF negative(strip(t)) THEN 0 - n ELSE n

\* the two sides of the "e" of a float literal
mantissa(u) == SubSeq(u, 1, first(u, "e") - 1)

exponent(u) == SubSeq(u, first(u, "e") + 1, Len(u))

\* digits "." digits with at least one digit
decimal_ok(m) ==
  LET dot == first(m, ".")
      whole == SubSeq(m, 1, dot - 1)
      frac == SubSeq(m, dot + 1, Len(m))
  IN IF dot > Len(m) THEN digits_ok(m)
     ELSE /\ whole # <<>> \/ frac # <<>>
          /\ whole = <<>> \/ digits_ok(whole)
          /\ frac = <<>> \/ digits_ok(frac)

\* float(text): "num" for a decimal literal with an optional exponent, "inf",
\* "nan", or "error" for a ValueError
float_kind(t) ==
  LET u == unsigned(strip(t))
  IN IF u \in {<<"i", "n", "f">>, <<"i", "n", "f", "i", "n", "i", "t", "y">>} THEN "inf"
     ELSE IF u = <<"n", "a", "n">> THEN "nan"
     ELSE IF /\ decimal_ok(mantissa(u))
             /\ contains(u, "e") => digits_ok(unsigned(exponent(u)))
       THEN "num"
     ELSE "error"

float_ok(t) == float_kind(t) = "num"

\* The literals, among the texts explored, whose double times the scale is
\* just below the exact product, so that int() gives one less: 32.3 * 1000 is
\* 32299.999999999996, 4.1 * 1000000 is 4099999.9999999995.
RoundsBelow ==
  { <<<<"3", "2", ".", "3">>, 1000>>,
    <<<<"4", ".", "1">>, 1000000>>,
    <<<<"4", ".", "1", "4">>, 1000000>> }

\* int(float(t) * scale) for a text float() takes as a finite number
float_times(t, scale) ==
  LET u == unsigned(strip(t))
      m == replace(mantissa(u), <<"_">>)
      x == exponent(u)
      e == IF contains(u, "e") THEN digits_value(replace(unsigned(x), <<"_">>)) ELSE 0
      dot == first(m, ".")
      whole == SubSeq(m, 1, dot - 1)
      frac == SubSeq(m, dot + 1, Len(m))
      num == digits_value(whole \o frac) * scale * (IF negative(x) THEN 1 ELSE pow10(e))
      den == pow10(Len(frac)) * (IF negative(x) THEN pow10(e) ELSE 1)
      magnitude == (num \div den) - (IF <<replace(u, <<"_">>), scale>> \in RoundsBelow THEN 1 ELSE 0)
  IN IF negative(strip(t)) THEN 0 - magnitude ELSE magnitude

\* line 115: the text that is parsed
cleaned(text) ==
  strip(replace(replace(replace(lower_text(text),
          <<"s", "u", "b", "s", "c", "r", "i", "b", "e", "r", "s">>),
          <<"+">>), <<"s", "e", "e">>))

\* the literal handed to float() and its scale; scale 1 when int() is used
suffix_scale(t) ==
  IF contains(t, "k") THEN 1000 ELSE IF contains(t, "m") THEN 1000000 ELSE 1

float_text(t) ==
  IF contains(t, "k") THEN replace(t, <<"k">>) ELSE replace(t, <<"m">>)

\* int(inf) raises OverflowError, which "except ValueError" does not catch
parse_subscriber_count_raises(text) ==
  /\ text # <<>>
  /\ suffix_scale(cleaned(text)) # 1
  /\ float_kind(float_text(cleaned(text))) = "inf"

parse_subscriber_count(text) ==
  IF text = <<>> THEN 0
  ELSE
    LET t == cleaned(text)
    IN IF suffix_scale(t) # 1
         THEN IF float_ok(float_text(t))
                THEN float_times(float_text(t), suffix_scale(t)) ELSE 0
       ELSE IF int_ok(replace(t, <<",">>))
         THEN int_value(replace(t, <<",">>)) ELSE 0

\* ----------------------------------------------------------- configuration
\* [filters] and the thresholds of [scraper], as load_config returns them
FilterConfigs ==
  { [max_subscribers |-> 1000, min_subscribers |-> 0,
     platforms |-> <<>>, require_social_links |-> FALSE] }

Configs ==
  { [max_profiles |-> q, concurrent_profiles |-> b,
     max_subscribers |-> f.max_subscribers, min_subscribers |-> f.min_subscribers,
     platforms |-> f.platforms, require_social_links |-> f.require_social_links,
     format |-> "csv"] :
       q \in 1..MaxQuota, b \in 1..MaxBatch, f \in FilterConfigs }

\* ------------------------------------------------------------------ pages
NoLinks == [p \in {} |-> ""]

\* What a profile page holds once the settle delay has elapsed: page.content()
\* or the subscriber script raises ("crash"), the content carries the
\* throttling marker ("throttled"), the page yields a subscriber text and the
\* link script raises ("links_crash"), or the page yields a subscriber text and
\* the mapping the link script returns ("profile").
Body(kind, text, links) == [kind |-> kind, subscriber_text |-> text, social_links |-> links]

Crash == Body("crash", <<>>, NoLinks)
Throttled == Body("throttled", <<>>, NoLinks)
Blank == Body("profile", <<>>, NoLinks)

\* After a goto that returned: a throttled page, or a profile.
LoadedBodies ==
  { Throttled,
    Body("profile", <<"5", "0", "0", " ", "s", "u", "b", "s", "c", "r", "i", "b", "e", "r", "s">>,
         [p \in {"twitter"} |-> "https://x.com/h"]),
    Body("profile", <<"2", "K", "+", " ", "s", "u", "b", "s", "c", "r", "i", "b", "e", "r", "s">>,
         [p \in {"other"} |-> "https://example.org/h"]) }

\* After a goto that raised, the page is the blank document or is unusable.
FailedBodies == {Blank, Crash}

Page(seen, nav_ok, body) == [seen |-> seen, nav_ok |-> nav_ok, body |-> body]

PageKinds ==
  {Page(TRUE, TRUE, b) : b \in LoadedBodies} \cup {Page(TRUE, FALSE, b) : b \in FailedBodies}

UnseenPage == Page(FALSE, TRUE, Blank)

Board(seen, ok, names) == [seen |-> seen, ok |-> ok, names |-> names]

\* a leaderboard that cannot be loaded, or the handles it reveals
BoardKinds(names, listed) ==
  {Board(TRUE, FALSE, {})}
    \cup {Board(TRUE, TRUE, S) : S \in {T \in SUBSET names : Cardinality(T) <= listed}}

UnseenBoard == Board(FALSE, TRUE, {})

\* ------------------------------------------------------------ filter chain
Restrict(f, S) == [k \in S |-> f[k]]

\* the allow-list compared as written
project_platforms_case_sensitive(social_links, platforms) ==
  IF platforms = <<>> THEN social_links
  ELSE Restrict(social_links,
         {k \in DOMAIN social_links : k \in {platforms[i] : i \in 1..Len(platforms)}})

\* {k: v for k, v in social_links.items() if k.lower() in [p.lower() for p in platforms]}
project_platforms(social_links, platforms) ==
  IF platforms = <<>> THEN social_links
  ELSE Restrict(social_links,
         {k \in DOMAIN social_links :
            lower(k) \in {lower(platforms[i]) : i \in 1..Len(platforms)}})

Outcome(kind, why, data) == [kind |-> kind, why |-> why, data |-> data]

NoData ==
  [username |-> "", profile_url |-> <<>>, subscriber_count |-> 0,
   social_links |-> NoLinks, scraped_at |-> 0, category |-> ""]

\* the ceiling test taking a count equal to the threshold as above it
above_max_inclusive(cfg, subscriber_count) ==
  cfg.max_subscribers > 0 /\ subscriber_count >= cfg.max_subscribers

\* line 444
above_max(cfg, subscriber_count) ==
  cfg.max_subscribers > 0 /\ subscriber_count > cfg.max_subscribers

\* line 449
below_min(cfg, subscriber_count) ==
  cfg.min_subscribers > 0 /\ subscriber_count < cfg.min_subscribers

\* The body of the extraction loop for one page: "error", "skip", or "accept"
\* with the profile_data that is appended to results, and the statement at
\* which the turn of the loop ended.
extract_one(cfg, body, profile_url, category, now) ==
  IF body.kind = "crash" THEN Outcome("error", "exception", NoData)
  ELSE IF body.kind = "throttled" THEN Outcome("error", "rate_limited", NoData)
  ELSE IF parse_subscriber_count_raises(body.subscriber_text)
    THEN Outcome("error", "exception", NoData)
  ELSE
    LET subscriber_count == parse_subscriber_count(body.subscriber_text)
        social_links == project_platforms(body.social_links, cfg.platforms)
    IN IF above_max(cfg, subscriber_count)
         THEN Outcome("skip", "above_max", NoData)
       ELSE IF below_min(cfg, subscriber_count)
         THEN Outcome("skip", "below_min", NoData)
       ELSE IF body.kind = "links_crash"
         THEN Outcome("error", "exception", NoData)
       ELSE IF cfg.require_social_links /\ DOMAIN social_links = {}
         THEN Outcome("skip", "no_links", NoData)
       ELSE Outcome("accept", "appended",
              [username |-> UsernameOf(profile_url), profile_url |-> profile_url,
               subscriber_count |-> subscriber_count, social_links |-> social_links,
               scraped_at |-> now, category |-> category])

\* ----------------------------------------------------------- durable store
get_csv_header ==
  <<"Username", "Profile URL", "Subscribers", "Twitter", "Instagram", "TikTok",
    "LinkedIn", "Facebook", "YouTube", "Linktree", "Threads", "Bluesky", "GitHub",
    "Medium", "Other", "Scraped At", "Category">>

\* the links written in another order than the header names them
all_platforms_swapped ==
  <<"instagram", "twitter", "tiktok", "linkedin", "facebook", "youtube",
    "linktree", "threads", "bluesky", "github", "medium", "other">>

\* line 188
all_platforms ==
  <<"twitter", "instagram", "tiktok", "linkedin", "facebook", "youtube",
    "linktree", "threads", "bluesky", "github", "medium", "other">>

\* the row append_to_csv writes for a profile
csv_row(profile) ==
  <<profile.username, profile.profile_url, profile.subscriber_count>>
    \o [i \in 1..Len(all_platforms) |->
          IF all_platforms[i] \in DOMAIN profile.social_links
            THEN profile.social_links[all_platforms[i]] ELSE ""]
    \o <<profile.scraped_at, profile.category>>

File(exists, rows) == [exists |-> exists, rows |-> rows]

\* line 191 and 197: the header is written when the path did not exist
writes_header(file) == ~file.exists

\* a successful append_to_csv
append_to_csv(file, profile) ==
  File(TRUE, file.rows \o (IF writes_header(file) THEN <<get_csv_header>> ELSE <<>>)
                       \o <<csv_row(profile)>>)

\* an append_to_csv that raises: open() fails and leaves the path as it was, or
\* open() creates the file and the buffered rows never reach it
append_failures(file) == {file, File(TRUE, file.rows)}

\* next(reader, None) skips the first row; every later row gives its first field
load_existing_profiles(file) ==
  IF file.exists
    THEN {lower(file.rows[i][1]) : i \in 2..Len(file.rows)}
    ELSE {}

RECURSIVE Perms(_)
\* the orders in which a set can be iterated
Perms(S) ==
  IF S = {} THEN {<<>>}
  ELSE UNION {{<<x>> \o p : p \in Perms(S \ {x})} : x \in S}

\* the handle compared as written, not case-normalized
already_scraped_case_sensitive(url, existing) == UsernameOf(url) \in existing

\* lines 266-267 and 422: is the handle of this URL in the Dedup Set
already_scraped(url, existing) == lower(UsernameOf(url)) \in existing

\* the discovered URLs, unfiltered
new_profile_urls_unfiltered(all_profile_urls, existing) == all_profile_urls

\* lines 263-268: the discovered URLs whose handle is not in the Dedup Set
new_profile_urls(all_profile_urls, existing) ==
  {url \in all_profile_urls : ~already_scraped(url, existing)}

\* the quota test passing one record too late
quota_met_off_by_one(total, cfg) == total > cfg.max_profiles

\* lines 546 and 573: the quota test
quota_met(total, cfg) == total >= cfg.max_profiles

\* ------------------------------------------------------------------ state
VARIABLES
  limits,              \* how much of the site, of the runs and of the faults is explored
  urls,                \* the list load_leaderboard_urls returned
  config,              \* the dict load_config returned
  file,                \* the CSV at output_path: does it exist, and its rows
  web,                 \* what the site shows, fixed the first time it is looked at
  run,                 \* runs of main() started so far
  pc,                  \* where scrape_leaderboards is
  url_idx,             \* enumerate(urls, 1)
  category,
  existing_usernames,
  results,
  skipped_count,
  error_count,
  total_processed,
  profile_urls,        \* what scroll_and_collect_profiles returned for this source
  batch_start,
  pages,               \* scrape_profile_batch: the URLs of the pages opened
  contexts,            \* scrape_profile_batch: browser contexts open
  nav_i,               \* index of the next page to navigate
  ext_i,               \* index of the next page to extract from
  batch_results,
  batch_skipped,
  batch_errors,
  new_users,
  save_i,              \* index of the next batch result to append
  io_failures,         \* appends that have raised so far
  \* history, read by the properties only
  loaded,              \* the Dedup Set as load_existing_profiles returned it
  navigated,           \* handles a profile goto was issued for in this run, in order
  sources_loaded,      \* url_idx of the leaderboards a goto was issued for in this run
  outcome,             \* the outcome of each page of the current batch
  nav_failed,          \* indexes of the pages of the current batch whose goto raised
  accepted,            \* handles with an Accept outcome in this run, in order
  appended,            \* handles appended to the file in this run, in order
  persist_failed,      \* an append raised in this run
  history,             \* one summary per finished run
  reason,              \* the statement that ended the turn of each page of the current batch
  tally,               \* Skip and Errored outcomes of candidates in this run
  slept,               \* the time.sleep calls of the driver and of the batch since their last goto
  \* scroll_and_collect_profiles
  all_profile_urls,
  no_new_count,
  scroll_count,
  revealed,            \* how many profile links the leaderboard page holds
  iterations,          \* turns of the scroll loop started
  seen                 \* every URL the link script returned in some turn

vars ==
  <<limits, urls, config, file, web, run, pc, url_idx, category, existing_usernames, results,
    skipped_count, error_count, total_processed, profile_urls, batch_start, pages,
    contexts, nav_i, ext_i, batch_results, batch_skipped, batch_errors, new_users,
    save_i, io_failures, loaded, navigated, sources_loaded, outcome, nav_failed,
    accepted, appended, persist_failed, history, reason, tally, slept,
    all_profile_urls, no_new_count, scroll_count, revealed, iterations, seen>>

scroll_vars == <<all_profile_urls, no_new_count, scroll_count, revealed, iterations, seen>>

driver_vars ==
  <<url_idx, category, existing_usernames, results, skipped_count, error_count,
    total_processed, profile_urls, batch_start>>

batch_vars ==
  <<pages, contexts, nav_i, ext_i, batch_results, batch_skipped, batch_errors,
    new_users, save_i, outcome, nav_failed, reason>>

UnseenWeb ==
  [board |-> [i \in 1..Len(urls) |-> UnseenBoard],
   profile |-> [u \in limits.names |-> UnseenPage]]

NoBatch ==
  /\ pages' = <<>>
  /\ nav_i' = 1
  /\ ext_i' = 1
  /\ batch_results' = <<>>
  /\ batch_skipped' = 0
  /\ batch_errors' = 0
  /\ new_users' = {}
  /\ save_i' = 1
  /\ outcome' = <<>>
  /\ nav_failed' = {}
  /\ reason' = <<>>

\* the state main() starts from, but for the inputs
Fresh ==
  /\ web = UnseenWeb
  /\ run = 0
  /\ pc = "idle"
  /\ url_idx = 1
  /\ category = ""
  /\ existing_usernames = {}
  /\ results = <<>>
  /\ skipped_count = 0
  /\ error_count = 0
  /\ total_processed = 0
  /\ profile_urls = <<>>
  /\ batch_start = 0
  /\ pages = <<>>
  /\ contexts = 0
  /\ nav_i = 1
  /\ ext_i = 1
  /\ batch_results = <<>>
  /\ batch_skipped = 0
  /\ batch_errors = 0
  /\ new_users = {}
  /\ save_i = 1
  /\ io_failures = 0
  /\ loaded = {}
  /\ navigated = <<>>
  /\ sources_loaded = <<>>
  /\ outcome = <<>>
  /\ nav_failed = {}
  /\ accepted = <<>>
  /\ appended = <<>>
  /\ persist_failed = FALSE
  /\ history = <<>>
  /\ reason = <<>>
  /\ tally = [skip |-> 0, error |-> 0]
  /\ slept = <<>>
  /\ all_profile_urls = {}
  /\ no_new_count = 0
  /\ scroll_count = 0
  /\ revealed = 0
  /\ iterations = 0
  /\ seen = {}

\* Before the first run the output path does not exist or is an empty file.
Init ==
  /\ limits = [names |-> Names(MaxNames), listed |-> MaxListed, runs |-> MaxRuns,
               io_failures |-> MaxIOFailures, pages |-> PageKinds]
  /\ urls = Sources(MaxSources)
  /\ config \in Configs
  /\ file \in {File(FALSE, <<>>), File(TRUE, <<>>)}
  /\ Fresh

\* ---------------------------------------------------------------- actions
\* main() -> scrape_leaderboards, lines 524-533: the counters start at zero
\* and the Dedup Set is read from the file.
StartRun ==
  /\ pc = "idle"
  /\ run < limits.runs
  /\ run' = run + 1
  /\ pc' = "source"
  /\ url_idx' = 1
  /\ category' = ""
  /\ existing_usernames' = load_existing_profiles(file)
  /\ loaded' = load_existing_profiles(file)
  /\ results' = <<>>
  /\ skipped_count' = 0
  /\ error_count' = 0
  /\ total_processed' = 0
  /\ profile_urls' = <<>>
  /\ batch_start' = 0
  /\ navigated' = <<>>
  /\ sources_loaded' = <<>>
  /\ accepted' = <<>>
  /\ appended' = <<>>
  /\ persist_failed' = FALSE
  /\ NoBatch
  /\ contexts' = 0
  /\ tally' = [skip |-> 0, error |-> 0]
  /\ slept' = <<>>
  /\ UNCHANGED <<scroll_vars, limits, urls, config, file, web, io_failures, history>>

\* lines 545-548: the quota is met at the head of the source loop
QuotaReached ==
  /\ pc = "source"
  /\ url_idx <= Len(urls)
  /\ quota_met(total_processed, config)
  /\ pc' = "summary"
  /\ UNCHANGED <<scroll_vars, tally, slept, limits, urls, config, file, web, run, driver_vars, batch_vars, io_failures, loaded,
                 navigated, sources_loaded, accepted, appended, persist_failed,
                 history>>

\* line 545: the source list is exhausted
SourcesExhausted ==
  /\ pc = "source"
  /\ url_idx > Len(urls)
  /\ pc' = "summary"
  /\ UNCHANGED <<scroll_vars, tally, slept, limits, urls, config, file, web, run, driver_vars, batch_vars, io_failures, loaded,
                 navigated, sources_loaded, accepted, appended, persist_failed,
                 history>>

\* the handler of the source loop leaving the loop
after_source_failure_aborting(idx, n) == n + 1

\* line 610: continue; source idx of n failed, the loop takes the one after it
after_source_failure(idx, n) == idx + 1

\* lines 559-561 and 607-610: loading or scrolling the leaderboard raises
LoadLeaderboardFails ==
  /\ pc = "source"
  /\ url_idx <= Len(urls)
  /\ ~quota_met(total_processed, config)
  /\ \E b \in BoardKinds(limits.names, limits.listed) :
       /\ web.board[url_idx].seen => b = web.board[url_idx]
       /\ ~b.ok
       /\ web' = [web EXCEPT !.board[url_idx] = b]
  /\ category' = get_category_title(category_slug(urls[url_idx]))
  /\ sources_loaded' = Append(sources_loaded, url_idx)
  /\ error_count' = error_count + 1
  /\ url_idx' = after_source_failure(url_idx, Len(urls))
  /\ slept' \in {<<>>, <<"page_wait_ms">>}
  /\ UNCHANGED <<scroll_vars, tally, limits, urls, config, file, run, pc, existing_usernames, results, skipped_count,
                 total_processed, profile_urls, batch_start, batch_vars, io_failures,
                 loaded, navigated, outcome, accepted, appended, persist_failed,
                 history>>

\* lines 550-569: the category, the leaderboard page, scroll_and_collect_profiles
Discover ==
  /\ pc = "source"
  /\ url_idx <= Len(urls)
  /\ ~quota_met(total_processed, config)
  /\ \E b \in BoardKinds(limits.names, limits.listed) :
       /\ web.board[url_idx].seen => b = web.board[url_idx]
       /\ b.ok
       /\ web' = [web EXCEPT !.board[url_idx] = b]
       /\ profile_urls' \in
            Perms(new_profile_urls({ProfileUrl(u) : u \in b.names}, existing_usernames))
  /\ category' = get_category_title(category_slug(urls[url_idx]))
  /\ sources_loaded' = Append(sources_loaded, url_idx)
  /\ batch_start' = 0
  /\ pc' = "batch"
  /\ slept' = <<"page_wait_ms">>
  /\ UNCHANGED <<scroll_vars, tally, limits, urls, config, file, run, url_idx, existing_usernames, results, skipped_count,
                 error_count, total_processed, batch_vars, io_failures, loaded,
                 navigated, accepted, appended, persist_failed, history>>

\* lines 603-605: time.sleep(3) unless this was the last source
source_delay(idx, n) == IF idx < n THEN <<"3s">> ELSE <<>>

\* lines 597-600: time.sleep(request_delay_ms / 1000) unless the slice reached
\* the end of the list
batch_delay(batch_end, n) == IF batch_end < n THEN <<"request_delay_ms">> ELSE <<>>

\* lines 572-574: the quota is met at the head of the batch loop; the loop is
\* left and (lines 603-605) the next source is taken
BatchQuotaBreak ==
  /\ pc = "batch"
  /\ batch_start < Len(profile_urls)
  /\ quota_met(total_processed, config)
  /\ url_idx' = url_idx + 1
  /\ profile_urls' = <<>>
  /\ batch_start' = 0
  /\ pc' = "source"
  /\ slept' = slept \o source_delay(url_idx, Len(urls))
  /\ UNCHANGED <<scroll_vars, tally, limits, urls, config, file, web, run, category, existing_usernames, results,
                 skipped_count, error_count, total_processed, batch_vars, io_failures,
                 loaded, navigated, sources_loaded, accepted, appended, persist_failed,
                 history>>

\* line 572 with no slice left, lines 603-605: the next source is taken
SourceDone ==
  /\ pc = "batch"
  /\ batch_start >= Len(profile_urls)
  /\ url_idx' = url_idx + 1
  /\ profile_urls' = <<>>
  /\ batch_start' = 0
  /\ pc' = "source"
  /\ slept' = slept \o source_delay(url_idx, Len(urls))
  /\ UNCHANGED <<scroll_vars, tally, limits, urls, config, file, web, run, category, existing_usernames, results,
                 skipped_count, error_count, total_processed, batch_vars, io_failures,
                 loaded, navigated, sources_loaded, accepted, appended, persist_failed,
                 history>>

Min(a, b) == IF a < b THEN a ELSE b

\* profile_urls[batch_start:batch_end]
batch_slice(list, start, size) == SubSeq(list, start + 1, Min(start + size, Len(list)))

\* lines 576-583 and 388-406: the slice is handed to scrape_profile_batch, which
\* opens one context and one page per URL
StartBatch ==
  /\ pc = "batch"
  /\ batch_start < Len(profile_urls)
  /\ ~quota_met(total_processed, config)
  /\ pages' = batch_slice(profile_urls, batch_start, config.concurrent_profiles)
  /\ contexts' = contexts + Len(pages')
  /\ nav_i' = 1
  /\ ext_i' = 1
  /\ batch_results' = <<>>
  /\ batch_skipped' = 0
  /\ batch_errors' = 0
  /\ new_users' = {}
  /\ save_i' = 1
  /\ outcome' = <<>>
  /\ nav_failed' = {}
  /\ pc' = "navigate"
  /\ reason' = <<>>
  /\ UNCHANGED <<scroll_vars, tally, slept, limits, urls, config, file, web, run, driver_vars, io_failures, loaded, navigated,
                 sources_loaded, accepted, appended, persist_failed, history>>

\* the extraction starting after the first goto
navigation_done_early(i, n) == TRUE

\* lines 409-416: the navigation loop ends after the goto on page n of n
navigation_done(i, n) == i = n

\* lines 409-413: goto on the next page; a goto that raises is logged and the
\* loop goes on. After the last page, line 416 and the extraction loop.
Navigate ==
  /\ pc = "navigate"
  /\ nav_i <= Len(pages)
  /\ LET username == UsernameOf(pages[nav_i])
     IN /\ \E pg \in limits.pages :
             /\ web.profile[username].seen => pg = web.profile[username]
             /\ web' = [web EXCEPT !.profile[username] = pg]
             /\ nav_failed' = IF pg.nav_ok THEN nav_failed ELSE nav_failed \cup {nav_i}
        /\ navigated' = Append(navigated, username)
  /\ nav_i' = nav_i + 1
  /\ pc' = IF navigation_done(nav_i, Len(pages)) THEN "extract" ELSE "navigate"
  /\ slept' = IF navigation_done(nav_i, Len(pages)) THEN <<"page_wait_ms">> ELSE <<>>
  /\ UNCHANGED <<scroll_vars, tally, reason, limits, urls, config, file, run, driver_vars, pages, contexts, ext_i, batch_results,
                 batch_skipped, batch_errors, new_users, save_i, outcome, io_failures,
                 loaded, sources_loaded, accepted, appended, persist_failed, history>>

\* an exception of the extraction leaving the loop for the finally clause
next_page_aborting(i, kind, n) == IF kind = "error" THEN n + 1 ELSE i + 1

\* lines 419, 425 and 505-507: the try is inside the loop, so whatever the
\* outcome of page i of n the loop goes on with the page after it
next_page(i, kind, n) == i + 1

\* every outcome putting the key into new_usernames
keys_gained_whatever(kind, key) == {key}

\* line 502: only an accepted record puts its key into new_usernames
keys_gained(kind, key) == IF kind = "accept" THEN {key} ELSE {}

\* a skipped candidate leaving the count as it was
skips_uncounted(kind) == 0

\* lines 446, 451 and 489: every skip adds one to skipped_count
skips(kind) == IF kind = "skip" THEN 1 ELSE 0

\* the key of an accepted record put into the Dedup Set by the batch itself
existing_after_extract_shared(existing, kind, key) ==
  IF kind = "accept" THEN existing \cup {key} ELSE existing

\* line 502: the key goes into the batch's own new_usernames; the set passed
\* in as existing_usernames is only read (line 422)
existing_after_extract(existing, kind, key) == existing

\* lines 419-507: one turn of the extraction loop
Extract ==
  /\ pc = "extract"
  /\ ext_i <= Len(pages)
  /\ LET profile_url == pages[ext_i]
         username == UsernameOf(profile_url)
         o == extract_one(config, web.profile[username].body, profile_url, category, run)
     IN IF already_scraped(profile_url, existing_usernames)
          THEN /\ outcome' = Append(outcome, "none")
               /\ reason' = Append(reason, "already_scraped")
               /\ UNCHANGED <<batch_results, batch_skipped, batch_errors, new_users,
                              accepted, tally>>
          ELSE /\ outcome' = Append(outcome, o.kind)
               /\ reason' = Append(reason, o.why)
               /\ tally' =
                    [skip |-> tally.skip + (IF o.kind = "skip" THEN 1 ELSE 0),
                     error |-> tally.error + (IF o.kind = "error" THEN 1 ELSE 0)]
               /\ batch_results' =
                    IF o.kind = "accept" THEN Append(batch_results, o.data) ELSE batch_results
               /\ new_users' = new_users \cup keys_gained(o.kind, lower(username))
               /\ accepted' =
                    IF o.kind = "accept" THEN Append(accepted, username) ELSE accepted
               /\ batch_skipped' = batch_skipped + skips(o.kind)
               /\ batch_errors' = batch_errors + (IF o.kind = "error" THEN 1 ELSE 0)
  /\ ext_i' = next_page(ext_i, outcome'[ext_i], Len(pages))
  /\ existing_usernames' =
       existing_after_extract(existing_usernames, outcome'[ext_i],
                              lower(UsernameOf(pages[ext_i])))
  /\ UNCHANGED <<scroll_vars, slept, limits, urls, config, file, web, run, pc, url_idx, category, results, skipped_count,
                 error_count, total_processed, profile_urls, batch_start, pages, contexts, nav_i, save_i,
                 nav_failed, io_failures, loaded, navigated, sources_loaded, appended,
                 persist_failed, history>>

\* lines 509-517: the contexts of the list are closed and the batch returns
BatchReturn ==
  /\ pc = "extract"
  /\ ext_i > Len(pages)
  /\ contexts' = contexts - Len(pages)
  /\ save_i' = 1
  /\ pc' = "persist"
  /\ UNCHANGED <<scroll_vars, tally, slept, reason, limits, urls, config, file, web, run, driver_vars, pages, nav_i, ext_i, batch_results,
                 batch_skipped, batch_errors, new_users, outcome, nav_failed, io_failures,
                 loaded, navigated, sources_loaded, accepted, appended, persist_failed,
                 history>>

\* lines 587-590: one turn of the save loop, append_to_csv returns
Persist ==
  /\ pc = "persist"
  /\ save_i <= Len(batch_results)
  /\ file' = append_to_csv(file, batch_results[save_i])
  /\ results' = Append(results, batch_results[save_i])
  /\ total_processed' = total_processed + 1
  /\ appended' = Append(appended, batch_results[save_i].username)
  /\ save_i' = save_i + 1
  /\ UNCHANGED <<scroll_vars, tally, slept, reason, limits, urls, config, web, run, pc, url_idx, category, existing_usernames,
                 skipped_count, error_count, profile_urls, batch_start, pages, contexts,
                 nav_i, ext_i, batch_results, batch_skipped, batch_errors, new_users,
                 outcome, nav_failed, io_failures, loaded, navigated, sources_loaded,
                 accepted, persist_failed, history>>

\* the keys of the batch taken although its save loop raised
keys_after_failed_save_taken(existing, new_usernames) == existing \cup new_usernames

\* line 592 is not reached when line 588 raises: the Dedup Set stays as it was
keys_after_failed_save(existing, new_usernames) == existing

\* lines 587-588 and 607-610: append_to_csv raises; the handler of the source
\* loop counts one error and goes on with the next source
PersistFails ==
  /\ pc = "persist"
  /\ save_i <= Len(batch_results)
  /\ io_failures < limits.io_failures
  /\ io_failures' = io_failures + 1
  /\ file' \in append_failures(file)
  /\ error_count' = error_count + 1
  /\ url_idx' = after_source_failure(url_idx, Len(urls))
  /\ profile_urls' = <<>>
  /\ batch_start' = 0
  /\ persist_failed' = TRUE
  /\ existing_usernames' = keys_after_failed_save(existing_usernames, new_users)
  /\ pc' = "source"
  /\ NoBatch
  /\ contexts' = contexts
  /\ UNCHANGED <<scroll_vars, tally, slept, limits, urls, config, web, run, category, results, skipped_count,
                 total_processed, loaded, navigated, sources_loaded, accepted, appended,
                 history>>

\* the save loop left before its last turn
batch_saved_early(i, list) == i >= 1

\* line 587: the save loop is over when every result of the batch was taken
batch_saved(i, list) == i > Len(list)

\* lines 592-600: the Dedup Set and the counters take the batch's results, and
\* the delay before the next batch
AfterBatch ==
  /\ pc = "persist"
  /\ batch_saved(save_i, batch_results)
  /\ existing_usernames' = existing_usernames \cup new_users
  /\ skipped_count' = skipped_count + batch_skipped
  /\ error_count' = error_count + batch_errors
  /\ batch_start' = batch_start + config.concurrent_profiles
  /\ pc' = "batch"
  /\ NoBatch
  /\ contexts' = contexts
  /\ slept' = slept \o batch_delay(batch_start + config.concurrent_profiles, Len(profile_urls))
  /\ UNCHANGED <<scroll_vars, tally, limits, urls, config, file, web, run, url_idx, category, results, total_processed,
                 profile_urls, io_failures, loaded, navigated, sources_loaded, accepted,
                 appended, persist_failed, history>>

\* lines 612-616: the summary line; the run is over
Summary ==
  /\ pc = "summary"
  /\ history' = Append(history,
       [collected |-> Len(results), skipped |-> skipped_count, errored |-> error_count,
        appended |-> Len(appended), quota_free |-> total_processed < config.max_profiles,
        persist_failed |-> persist_failed])
  /\ pc' = "idle"
  /\ UNCHANGED <<scroll_vars, tally, slept, limits, urls, config, file, web, run, driver_vars, batch_vars, io_failures, loaded,
                 navigated, sources_loaded, accepted, appended, persist_failed>>

\* lines 400-406, 509-515 and 607-610: new_context() or new_page() raises
\* while the contexts of a batch are opened. The finally clause closes the
\* contexts of the list; a context whose new_page() raised was created and is
\* not in the list yet, so it stays open. The exception leaves
\* scrape_profile_batch and is caught by the handler of the source loop.
OpenContextFails ==
  /\ pc = "batch"
  /\ batch_start < Len(profile_urls)
  /\ ~quota_met(total_processed, config)
  /\ \E created \in {0, 1} : contexts' = contexts + created
  /\ error_count' = error_count + 1
  /\ url_idx' = after_source_failure(url_idx, Len(urls))
  /\ profile_urls' = <<>>
  /\ batch_start' = 0
  /\ pc' = "source"
  /\ NoBatch
  /\ UNCHANGED <<scroll_vars, tally, slept, limits, urls, config, file, web, run, category,
                 existing_usernames, results, skipped_count, total_processed, io_failures,
                 loaded, navigated, sources_loaded, accepted, appended, persist_failed,
                 history>>

Next ==
  \/ StartRun
  \/ QuotaReached
  \/ SourcesExhausted
  \/ LoadLeaderboardFails
  \/ Discover
  \/ BatchQuotaBreak
  \/ SourceDone
  \/ StartBatch
  \/ Navigate
  \/ Extract
  \/ BatchReturn
  \/ Persist
  \/ PersistFails
  \/ AfterBatch
  \/ Summary

Spec == Init /\ [][Next]_vars

\* One run over one source with no I/O failure, on a site with more handles
\* and longer leaderboards, in batches of the largest size.
InitWide ==
  /\ limits = [names |-> Names(MaxNames + 1), listed |-> MaxListed + 2, runs |-> 1,
               io_failures |-> 0, pages |-> PageKinds]
  /\ urls = Sources(1)
  /\ config \in {c \in Configs : c.concurrent_profiles = MaxBatch}
  /\ file = File(FALSE, <<>>)
  /\ Fresh

NextWide ==
  \/ StartRun
  \/ SourcesExhausted
  \/ LoadLeaderboardFails
  \/ Discover
  \/ BatchQuotaBreak
  \/ SourceDone
  \/ StartBatch
  \/ Navigate
  \/ Extract
  \/ BatchReturn
  \/ Persist
  \/ AfterBatch
  \/ Summary

SpecWide == InitWide /\ [][NextWide]_vars

\* ------------------------------------------------- the filter chain alone
\* One run over one source that lists one profile, under every combination of
\* thresholds, allow-list and required-link flag, on every kind of page.
FilterCases ==
  { [max_profiles |-> 1, concurrent_profiles |-> 1,
     max_subscribers |-> mx, min_subscribers |-> mn,
     platforms |-> pl, require_social_links |-> rq, format |-> "csv"] :
       mx \in {0, 500, 1000}, mn \in {0, 2000, 3000},
       pl \in {<<>>, <<"Twitter">>}, rq \in BOOLEAN }

\* a link for every platform the script knows
EveryLink ==
  [p \in {"twitter", "instagram", "tiktok", "linkedin", "facebook", "youtube",
          "linktree", "threads", "bluesky", "github", "medium", "other"} |->
     CASE p = "twitter" -> "https://x.com/h"
       [] p = "instagram" -> "https://instagram.com/h"
       [] p = "tiktok" -> "https://tiktok.com/@h"
       [] p = "linkedin" -> "https://linkedin.com/in/h"
       [] p = "facebook" -> "https://facebook.com/h"
       [] p = "youtube" -> "https://youtube.com/@h"
       [] p = "linktree" -> "https://linktr.ee/h"
       [] p = "threads" -> "https://threads.net/@h"
       [] p = "bluesky" -> "https://bsky.app/profile/h"
       [] p = "github" -> "https://github.com/h"
       [] p = "medium" -> "https://medium.com/@h"
       [] OTHER -> "https://example.org/h"]

FilterLinks ==
  { NoLinks, EveryLink,
    [p \in {"twitter"} |-> "https://x.com/h"],
    [p \in {"other"} |-> "https://example.org/h"],
    [p \in {"twitter", "other"} |->
       IF p = "twitter" THEN "https://x.com/h" ELSE "https://example.org/h"] }

FilterBodies ==
  LET texts == {b.subscriber_text : b \in LoadedBodies} \ {<<>>}
  IN {Throttled}
       \cup {Body("profile", t, l) : t \in texts, l \in FilterLinks}
       \cup {Body("links_crash", t, NoLinks) : t \in texts}

FilterPages ==
  {Page(TRUE, TRUE, b) : b \in FilterBodies} \cup {Page(TRUE, FALSE, b) : b \in FailedBodies}

InitFilter ==
  /\ limits = [names |-> Names(1), listed |-> 1, runs |-> 1, io_failures |-> 0,
               pages |-> FilterPages]
  /\ urls = Sources(1)
  /\ config \in FilterCases
  /\ file = File(FALSE, <<>>)
  /\ Fresh

NextFilter ==
  \/ StartRun
  \/ SourcesExhausted
  \/ LoadLeaderboardFails
  \/ Discover
  \/ SourceDone
  \/ StartBatch
  \/ Navigate
  \/ Extract
  \/ BatchReturn
  \/ Persist
  \/ AfterBatch
  \/ Summary

SpecFilter == InitFilter /\ [][NextFilter]_vars

\* --------------------------------------------- scroll_and_collect_profiles
\* line 222
max_no_new == 5

\* line 227: while scroll_count < 50
max_scrolls == 50

\* the break one turn too late
stalled_late(n) == n > max_no_new

\* line 254
stalled(n) == n >= max_no_new

\* Dedup Sets the function is called with
ScrollStores == {{}, {"alice"}, {"bob", "carol"}}

\* lines 229-244: the link script returns the URLs of the links the page
\* holds, all of them or, on a page that drops the rows scrolled out of view,
\* the last one only
views(n) ==
  {{ProfileUrl(AllNames[i]) : i \in lo..n} : lo \in {1} \cup ({n} \ {0})}

\* lines 560-564 and 220-223: the leaderboard is loaded and the function is
\* entered, against some Dedup Set and with some links on the page already
EnterScroll ==
  /\ pc = "idle"
  /\ \E store \in ScrollStores : existing_usernames' = store
  /\ revealed' \in 0..2
  /\ all_profile_urls' = {}
  /\ no_new_count' = 0
  /\ scroll_count' = 0
  /\ iterations' = 0
  /\ seen' = {}
  /\ pc' = "scroll"
  /\ UNCHANGED <<limits, urls, config, file, web, run, url_idx, category, results, skipped_count,
                 error_count, total_processed, profile_urls, batch_start, batch_vars,
                 io_failures, loaded, navigated, sources_loaded, accepted, appended,
                 persist_failed, history, tally, slept>>

\* lines 227-261: one turn of the scroll loop; scrolling may bring one more
\* link onto the page
ScrollTurn ==
  /\ pc = "scroll"
  /\ scroll_count < max_scrolls
  /\ iterations' = iterations + 1
  /\ \E profile_links \in views(revealed) :
       LET new_urls == profile_links \ all_profile_urls
       IN /\ seen' = seen \cup profile_links
          /\ all_profile_urls' = all_profile_urls \cup new_urls
          /\ no_new_count' = IF new_urls # {} THEN 0 ELSE no_new_count + 1
          /\ IF new_urls = {} /\ stalled(no_new_count + 1)
               THEN /\ pc' = "filter"
                    /\ UNCHANGED <<scroll_count, revealed>>
               ELSE /\ pc' = "scroll"
                    /\ scroll_count' = scroll_count + 1
                    /\ revealed' \in revealed..Min(revealed + 1, MaxRevealed)
  /\ UNCHANGED <<limits, urls, config, file, web, run, driver_vars, batch_vars, io_failures, loaded,
                 navigated, sources_loaded, accepted, appended, persist_failed, history,
                 tally, slept>>

\* line 227: the loop condition fails
ScrollCap ==
  /\ pc = "scroll"
  /\ scroll_count >= max_scrolls
  /\ pc' = "filter"
  /\ UNCHANGED <<scroll_vars, limits, urls, config, file, web, run, driver_vars, batch_vars,
                 io_failures, loaded, navigated, sources_loaded, accepted, appended,
                 persist_failed, history, tally, slept>>

RECURSIVE ascending(_)
\* a set of indexes as a sequence, smallest first
ascending(I) ==
  IF I = {} THEN <<>>
  ELSE LET m == CHOOSE i \in I : \A j \in I : i <= j
       IN <<m>> \o ascending(I \ {m})

\* line 265: two of the orders in which the set can be iterated, the order of
\* the page and its reverse
some_orders(S) ==
  LET idx == ascending({i \in 1..Len(AllNames) : ProfileUrl(AllNames[i]) \in S})
      up == [k \in 1..Len(idx) |-> ProfileUrl(AllNames[idx[k]])]
      down == [k \in 1..Len(idx) |-> up[Len(idx) + 1 - k]]
  IN {up, down}

\* lines 263-274: the URLs whose handle is not in the Dedup Set are returned
ScrollReturn ==
  /\ pc = "filter"
  /\ profile_urls' \in some_orders(new_profile_urls(all_profile_urls, existing_usernames))
  /\ pc' = "scrolled"
  /\ UNCHANGED <<scroll_vars, limits, urls, config, file, web, run, url_idx, category,
                 existing_usernames, results, skipped_count, error_count, total_processed,
                 batch_start, batch_vars, io_failures, loaded, navigated, sources_loaded,
                 accepted, appended, persist_failed, history, tally, slept>>

\* One call of scroll_and_collect_profiles on a page that comes to hold up to
\* MaxRevealed links.
InitScroll ==
  /\ limits = [names |-> Names(MaxRevealed), listed |-> MaxRevealed, runs |-> 1,
               io_failures |-> 0, pages |-> PageKinds]
  /\ urls = Sources(1)
  /\ config \in {c \in Configs : c.max_profiles = 1 /\ c.concurrent_profiles = 1}
  /\ file = File(FALSE, <<>>)
  /\ Fresh

NextScroll ==
  \/ EnterScroll
  \/ ScrollTurn
  \/ ScrollCap
  \/ ScrollReturn

SpecScroll == InitScroll /\ [][NextScroll]_vars

\* ------------------------------------------------------------- properties
\* the identity key of a row: its first field, case-normalized
RowKey(row) == lower(row[1])

IsHeader(row) == row[1] = "Username"

\* C1: no two rows of the durable store carry the same identity key under
\* case-insensitive comparison, after any sequence of runs.
C1_NoDuplicateKeys ==
  \A i, j \in 1..Len(file.rows) :
    i # j => RowKey(file.rows[i]) # RowKey(file.rows[j])

\* C2: a candidate whose case-normalized key is in the Dedup Set loaded from
\* the durable store is never navigated to and never appended.
C2_Resume ==
  /\ \A i \in 1..Len(navigated) : lower(navigated[i]) \notin loaded
  /\ \A i \in 1..Len(appended) : lower(appended[i]) \notin loaded

\* C2 witness: the store held one identity, the leaderboard listed it (in
\* another case) together with a new one, and only the new one was fetched
\* and appended.
C2_Witness ==
  /\ pc = "batch"
  /\ loaded = {"alice"}
  /\ web.board[url_idx].names = {"Alice", "bob"}
  /\ navigated = <<"bob">>
  /\ appended = <<"bob">>

\* C3: the number of records appended in one run never exceeds max_profiles.
C3_QuotaNeverExceeded == Len(appended) <= config.max_profiles

\* C4: a record is appended in a run if and only if its candidate had an
\* Accept outcome: only Accept outcomes are appended, and once a batch has been
\* saved every Accept outcome of the run is in the store.
C4_PersistedIffAccepted ==
  /\ \A i \in 1..Len(appended) : \E j \in 1..Len(accepted) : accepted[j] = appended[i]
  /\ pc \in {"source", "batch", "summary", "idle"} => Len(appended) = Len(accepted)

\* C5: a failed append is fatal: after it the run loads no source and fetches
\* no batch.
C5_PersistenceFailureFatal ==
  persist_failed => pc \notin {"batch", "navigate", "extract", "persist"}

\* C6: the first row of a store that has rows is the header, and the header
\* is nowhere else.
C6_HeaderFirstAndOnce ==
  file.rows # <<>> =>
    /\ IsHeader(file.rows[1])
    /\ \A i \in 2..Len(file.rows) : ~IsHeader(file.rows[i])

\* C7: when a run ends below the quota and with no failed append, the next
\* run, which sees the same leaderboards and the same pages, appends no row.
C7_IdempotentRerun ==
  \A k \in 2..Len(history) :
    (history[k - 1].quota_free /\ ~history[k - 1].persist_failed)
      => history[k].appended = 0

\* C8: once the count of accepted records has met max_profiles, no step of
\* the run issues a goto for a profile or for a leaderboard.
C8_QuotaCheckedBeforeEveryBatch ==
  [][total_processed >= config.max_profiles =>
       /\ Len(navigated') <= Len(navigated)
       /\ Len(sources_loaded') <= Len(sources_loaded)]_vars

\* C8 witness: the quota is met at the head of the source loop with a source
\* left, which is never loaded, and the run is at its summary.
C8_Witness ==
  /\ pc = "summary"
  /\ total_processed >= config.max_profiles
  /\ url_idx <= Len(urls)
  /\ ~web.board[url_idx].seen

\* C9: a candidate whose goto raised gets the Errored outcome.
C9_NavigationFailureErrored ==
  \A i \in 1..Len(outcome) : i \in nav_failed => outcome[i] = "error"

\* the pages of the current batch whose navigation or extraction failed
FailedPages ==
  nav_failed \cup
    {i \in 1..Len(outcome) :
       outcome[i] = "error" /\ web.profile[UsernameOf(pages[i])].body.kind = "crash"}

times_slept(log, s) == Cardinality({i \in 1..Len(log) : log[i] = s})

\* the pages of the current batch whose content carried the throttling marker
ThrottledPages == {i \in 1..Len(reason) : reason[i] = "rate_limited"}

\* C11: every throttled candidate is marked Errored, and when a batch with at
\* least one throttled candidate returns, the escalated delay (error_delay_ms)
\* has been slept exactly once for it.
C11_EscalatedDelayOncePerThrottledBatch ==
  (pc = "persist" /\ ThrottledPages # {}) =>
    /\ \A i \in ThrottledPages : outcome[i] = "error"
    /\ times_slept(slept, "error_delay_ms") = 1

\* the page of the only candidate of a batch of one
OnlyBody == web.profile[UsernameOf(pages[1])].body

\* C12: a count above a ceiling that is set is skipped at the ceiling, before
\* the floor and before the links are read (a page whose link script would
\* raise is skipped all the same); a count below a floor that is set is
\* skipped at the floor; a threshold of 0 and a count equal to a threshold
\* skip nothing, and then the links are read.
C12_SubscriberThresholds ==
  (pc = "persist" /\ Len(pages) = 1 /\ OnlyBody.kind \in {"profile", "links_crash"}) =>
    LET n == parse_subscriber_count(OnlyBody.subscriber_text)
        over == config.max_subscribers > 0 /\ n > config.max_subscribers
        under == config.min_subscribers > 0 /\ n < config.min_subscribers
    IN /\ over => (outcome[1] = "skip" /\ reason[1] = "above_max")
       /\ (~over /\ under) => (outcome[1] = "skip" /\ reason[1] = "below_min")
       /\ (~over /\ ~under) => reason[1] \notin {"above_max", "below_min"}
       /\ (~over /\ ~under /\ OnlyBody.kind = "links_crash") => outcome[1] = "error"

\* C12 witness: a page of 2,000 subscribers whose link script would raise,
\* under a ceiling of 1,000 and a floor of 3,000, was skipped at the ceiling.
C12_Witness ==
  /\ pc = "persist"
  /\ config.max_subscribers = 1000
  /\ config.min_subscribers = 3000
  /\ OnlyBody.kind = "links_crash"
  /\ parse_subscriber_count(OnlyBody.subscriber_text) = 2000
  /\ reason = <<"above_max">>

\* C13: for a profile that passed the thresholds, the record is skipped
\* exactly when links are required and no link is left after the projection
\* onto the allow-list (compared case-insensitively; an empty allow-list keeps
\* every link); otherwise it is accepted with exactly the links left.
C13_ProjectionThenRequiredLinks ==
  (/\ pc = "persist"
   /\ Len(pages) = 1
   /\ OnlyBody.kind = "profile"
   /\ reason[1] \notin {"above_max", "below_min"}) =>
    LET allow == {lower(config.platforms[i]) : i \in 1..Len(config.platforms)}
        kept == IF config.platforms = <<>>
                  THEN DOMAIN OnlyBody.social_links
                  ELSE {k \in DOMAIN OnlyBody.social_links : lower(k) \in allow}
    IN /\ outcome[1] \in {"accept", "skip"}
       /\ outcome[1] = "skip" <=> (config.require_social_links /\ kept = {})
       /\ outcome[1] = "accept" =>
            /\ DOMAIN batch_results[1].social_links = kept
            /\ \A k \in kept : batch_results[1].social_links[k] = OnlyBody.social_links[k]

\* C13 witness: links are required, the allow-list is "Twitter", and a profile
\* whose only link is on another platform was skipped for having no link.
C13_Witness ==
  /\ pc = "persist"
  /\ config.platforms = <<"Twitter">>
  /\ config.require_social_links
  /\ OnlyBody.kind = "profile"
  /\ DOMAIN OnlyBody.social_links = {"other"}
  /\ reason = <<"no_links">>

\* C14: the scroll loop makes at most 50 turns and 50 scrolls; it is left at
\* the 5th consecutive turn without a new URL or when 50 scrolls are done; a
\* turn that finds a new URL puts the consecutive count back to 0, a turn that
\* finds none and goes on adds 1 to it.
C14_DiscoveryTerminates ==
  /\ [](/\ iterations <= 50
        /\ scroll_count <= 50
        /\ pc = "scroll" => no_new_count < 5
        /\ pc \in {"filter", "scrolled"} => (no_new_count = 5 \/ scroll_count = 50))
  /\ [][pc = "scroll" =>
          /\ all_profile_urls' # all_profile_urls => no_new_count' = 0
          /\ (all_profile_urls' = all_profile_urls /\ iterations' # iterations) =>
               no_new_count' = no_new_count + 1]_vars

\* C14 witness: a page that kept revealing links left the loop at the cap of
\* 50 scrolls, not on 5 turns without a new URL.
C14_Witness ==
  /\ pc = "filter"
  /\ scroll_count = 50
  /\ iterations = 50
  /\ no_new_count < 5
  /\ Cardinality(all_profile_urls) = MaxRevealed

\* C15: the list returned holds exactly the URLs the link script returned in
\* some turn whose handle, lower-cased, is not in the Dedup Set, each once.
C15_DiscoveryOutput ==
  pc = "scrolled" =>
    /\ {profile_urls[i] : i \in 1..Len(profile_urls)} =
         {u \in seen : lower(UsernameOf(u)) \notin existing_usernames}
    /\ \A i, j \in 1..Len(profile_urls) : i # j => profile_urls[i] # profile_urls[j]

\* C15 witness: the Dedup Set holds alice; the page showed alice, Alice and
\* others, later only its last link; the list returned has neither alice nor
\* Alice and has the others.
C15_Witness ==
  /\ pc = "scrolled"
  /\ existing_usernames = {"alice"}
  /\ {ProfileUrl("alice"), ProfileUrl("Alice"), ProfileUrl("bob"), ProfileUrl("Bob")} \subseteq seen
  /\ Len(profile_urls) = Cardinality(seen) - 2
  /\ profile_urls[1] = ProfileUrl("bob")

IsPrefix(s, t) == Len(s) <= Len(t) /\ \A i \in 1..Len(s) : s[i] = t[i]

\* C16: wherever the process may be stopped, the records appended by the run
\* are a prefix of the Accept outcomes decided so far, in acceptance order,
\* and no more than the one record just accepted is still waiting for its
\* append.
C16_IncrementalPersistence ==
  /\ IsPrefix(appended, accepted)
  /\ Len(accepted) - Len(appended) <= 1

\* C17: when the run ends, its summary gives as collected the number of rows
\* the run appended, as skipped the number of candidates with a Skip outcome
\* and as errored the number of candidates with an Errored outcome.
C17_SummaryCounts ==
  pc = "summary" =>
    /\ Len(results) = Len(appended)
    /\ skipped_count = tally.skip
    /\ error_count = tally.error

\* C18: a source that fails to load does not end the run: when the run is at
\* its summary with the quota not met, every source of the list has been
\* visited, in order; and a run ends only by printing its summary.
C18_FailuresDoNotAbort ==
  /\ []((pc = "summary" /\ total_processed < config.max_profiles) =>
          sources_loaded = [i \in 1..Len(urls) |-> i])
  /\ [][(pc # "idle" /\ pc' = "idle") =>
          (pc = "summary" /\ Len(history') = Len(history) + 1)]_vars

\* C18 witness: the first source failed to load, the second was visited and a
\* record of it was appended, and the run is at its summary.
C18_Witness ==
  /\ pc = "summary"
  /\ web.board[1].seen /\ ~web.board[1].ok
  /\ sources_loaded = <<1, 2>>
  /\ appended # <<>>

Range(s) == {s[i] : i \in 1..Len(s)}

\* C19: the sources visited are the first ones of the list, in list order;
\* contexts are opened only when none is open; and when a goto for a profile
\* is issued, every candidate of the earlier batches of the source has been
\* navigated to and, if it was accepted, appended.
C19_Ordering ==
  /\ [](sources_loaded = [i \in 1..Len(sources_loaded) |-> i])
  /\ [][contexts' > contexts => contexts = 0]_vars
  /\ [][Len(navigated') > Len(navigated) =>
          \A i \in 1..batch_start :
            LET u == UsernameOf(profile_urls[i])
            IN /\ u \in Range(navigated)
               /\ u \in Range(accepted) => u \in Range(appended)]_vars

\* C19 witness: the second batch of a source has been navigated to after the
\* record accepted in the first batch was appended.
C19_Witness ==
  /\ pc = "extract"
  /\ batch_start = 1
  /\ Len(navigated) = 2
  /\ accepted = <<navigated[1]>>
  /\ appended = <<navigated[1]>>

\* C20: a goto for a leaderboard other than the first of the run, and the
\* first goto of a batch other than the first of its source, is issued only
\* after the base delay (request_delay_ms) was slept since the last goto.
C20_BaseDelayBetweenUnits ==
  [][((Len(sources_loaded') > Len(sources_loaded) /\ sources_loaded # <<>>)
        \/ (Len(navigated') > Len(navigated) /\ nav_i = 1 /\ batch_start > 0))
       => times_slept(slept, "request_delay_ms") >= 1]_vars

\* C21: every key of the Dedup Set is the case-normalized key of a row of the
\* durable store.
C21_DedupKeysAreStored ==
  \A k \in existing_usernames : \E i \in 1..Len(file.rows) : RowKey(file.rows[i]) = k

\* C21 witness: an append failed in this run, and the Dedup Set has since
\* gained the key of a record that was appended.
C21_Witness ==
  /\ persist_failed
  /\ pc = "batch"
  /\ existing_usernames \ loaded # {}

\* C22: when the next batch or the next source is about to be taken, the key
\* of every row appended in this run is in the Dedup Set.
C22_AppendedKeysInDedupSet ==
  pc \in {"source", "batch"} =>
    \A i \in 1..Len(appended) : lower(appended[i]) \in existing_usernames

\* C23: during a run the Dedup Set never loses a key, and it holds only the
\* keys loaded from the store and keys of candidates accepted in the run.
C23_DedupSetGrowsByAcceptedKeys ==
  /\ [][pc # "idle" => existing_usernames \subseteq existing_usernames']_vars
  /\ [](existing_usernames \subseteq
          loaded \cup {lower(accepted[i]) : i \in 1..Len(accepted)})

\* C23 witness: a candidate that was skipped under the first source is not in
\* the Dedup Set and has been fetched again under the second.
C23_Witness ==
  /\ Len(navigated) = 2
  /\ navigated[1] = navigated[2]
  /\ Len(sources_loaded) = 2
  /\ tally.skip = 2
  /\ lower(navigated[1]) \notin existing_usernames

\* ------------------------------------------------ parse_subscriber_count alone
\* One run over one source that lists one profile, with no threshold set, on a
\* page whose subscriber link holds any text of up to MaxTextLen characters of
\* ParseAlphabet or one of the longer texts below.
MaxTextLen == 3

ParseAlphabet == {"4", "1", ".", "k", "M", ",", " ", "-", "_"}

T276K == <<"2", "7", "6", "K", "+", " ", "s", "u", "b", "s", "c", "r", "i", "b", "e", "r", "s">>

T1_5M == <<"1", ".", "5", "M", " ", "s", "u", "b", "s", "c", "r", "i", "b", "e", "r", "s">>

T12345 == <<"1", "2", ",", "3", "4", "5", " ", "s", "u", "b", "s", "c", "r", "i", "b", "e", "r", "s">>

TSee3 == <<"s", "e", "e", " ", "3", " ", "s", "u", "b", "s", "c", "r", "i", "b", "e", "r", "s">>

T4_1M == <<"4", ".", "1", "M", " ", "s", "u", "b", "s", "c", "r", "i", "b", "e", "r", "s">>

T32_3K == <<"3", "2", ".", "3", "K", " ", "s", "u", "b", "s", "c", "r", "i", "b", "e", "r", "s">>

TInfK == <<"i", "n", "f", " ", "K", " ", "s", "u", "b", "s", "c", "r", "i", "b", "e", "r", "s">>

TNanK == <<"n", "a", "n", " ", "K", " ", "s", "u", "b", "s", "c", "r", "i", "b", "e", "r", "s">>

T1e3K == <<"1", "e", "3", "K", " ", "s", "u", "b", "s", "c", "r", "i", "b", "e", "r", "s">>

ParseExamples == {<<>>, T276K, T1_5M, T12345, TSee3, T4_1M, T32_3K, TInfK, TNanK, T1e3K}

ParseTexts ==
  ParseExamples \cup UNION {[1..n -> ParseAlphabet] : n \in 0..MaxTextLen}

ParsePages == {Page(TRUE, TRUE, Body("profile", t, NoLinks)) : t \in ParseTexts}

ParseConfig ==
  [max_profiles |-> 1, concurrent_profiles |-> 1, max_subscribers |-> 0,
   min_subscribers |-> 0, platforms |-> <<>>, require_social_links |-> FALSE,
   format |-> "csv"]

InitParse ==
  /\ limits = [names |-> Names(1), listed |-> 1, runs |-> 1, io_failures |-> 0,
               pages |-> ParsePages]
  /\ urls = Sources(1)
  /\ config = ParseConfig
  /\ file = File(FALSE, <<>>)
  /\ Fresh

NextParse ==
  \/ StartRun
  \/ SourcesExhausted
  \/ LoadLeaderboardFails
  \/ Discover
  \/ SourceDone
  \/ StartBatch
  \/ Navigate
  \/ Extract
  \/ BatchReturn
  \/ Persist
  \/ AfterBatch
  \/ Summary

SpecParse == InitParse /\ [][NextParse]_vars

\* a decimal numeral: digits with at most one "."
plain_decimal(p) ==
  /\ \A i \in 1..Len(p) : p[i] \in Digits \cup {"."}
  /\ \E i \in 1..Len(p) : p[i] \in Digits
  /\ \A i, j \in 1..Len(p) : (p[i] = "." /\ p[j] = ".") => i = j

\* the numeral p times the scale, exactly
exact_times(p, scale) ==
  LET dot == first(p, ".")
      places == IF dot > Len(p) THEN 0 ELSE Len(p) - dot
  IN (digits_value(replace(p, <<".">>)) * scale) \div pow10(places)

\* the count recorded for the only candidate of a batch of one; -1 when the
\* extraction of the page raised
recorded_count ==
  IF outcome[1] = "accept" THEN batch_results[1].subscriber_count ELSE 0 - 1

\* C24: the five examples parse to 276000, 1500000, 12345, 0 and 3; once
\* "subscribers", "+" and "see" are removed, a numeral followed by k counts the
\* numeral times 1,000, a numeral followed by m the numeral times 1,000,000,
\* and digits with thousands separators count the integer they spell.
C24_ParseRule ==
  (pc = "persist" /\ Len(pages) = 1 /\ OnlyBody.kind = "profile") =>
    LET text == OnlyBody.subscriber_text
        c == cleaned(text)
        numeral == SubSeq(c, 1, Len(c) - 1)
    IN /\ text = T276K => recorded_count = 276000
       /\ text = T1_5M => recorded_count = 1500000
       /\ text = T12345 => recorded_count = 12345
       /\ text = <<>> => recorded_count = 0
       /\ text = TSee3 => recorded_count = 3
       /\ (c # <<>> /\ c[Len(c)] = "k" /\ plain_decimal(numeral)) =>
            recorded_count = exact_times(numeral, 1000)
       /\ (c # <<>> /\ c[Len(c)] = "m" /\ plain_decimal(numeral)) =>
            recorded_count = exact_times(numeral, 1000000)
       /\ (all_digits(replace(c, <<",">>)) /\ replace(c, <<",">>) # <<>>) =>
            recorded_count = digits_value(replace(c, <<",">>))

\* C24, the examples alone, which the code meets
C24_Examples ==
  (pc = "persist" /\ Len(pages) = 1 /\ OnlyBody.kind = "profile") =>
    LET text == OnlyBody.subscriber_text
    IN /\ text = T276K => recorded_count = 276000
       /\ text = T1_5M => recorded_count = 1500000
       /\ text = T12345 => recorded_count = 12345
       /\ text = <<>> => recorded_count = 0
       /\ text = TSee3 => recorded_count = 3

\* C25: whatever the text of the subscriber link, the parse returns an integer
\* and raises nothing, so the extraction of a page that loaded and whose
\* scripts ran does not end in an exception.
C25_ParseNeverRaises ==
  (pc = "persist" /\ Len(pages) = 1 /\ OnlyBody.kind = "profile") =>
    /\ reason[1] # "exception"
    /\ outcome[1] = "accept"
    /\ batch_results[1].subscriber_count \in Int

\* ------------------------------------------------------- the link script
\* lines 459-466, in the order Object.entries() visits them
platformMap ==
  <<<<<<"t", "w", "i", "t", "t", "e", "r", ".", "c", "o", "m">>, "twitter">>,
    <<<<"x", ".", "c", "o", "m">>, "twitter">>,
    <<<<"i", "n", "s", "t", "a", "g", "r", "a", "m", ".", "c", "o", "m">>, "instagram">>,
    <<<<"f", "a", "c", "e", "b", "o", "o", "k", ".", "c", "o", "m">>, "facebook">>,
    <<<<"l", "i", "n", "k", "e", "d", "i", "n", ".", "c", "o", "m">>, "linkedin">>,
    <<<<"t", "i", "k", "t", "o", "k", ".", "c", "o", "m">>, "tiktok">>,
    <<<<"y", "o", "u", "t", "u", "b", "e", ".", "c", "o", "m">>, "youtube">>,
    <<<<"l", "i", "n", "k", "t", "r", ".", "e", "e">>, "linktree">>,
    <<<<"t", "h", "r", "e", "a", "d", "s", ".", "n", "e", "t">>, "threads">>,
    <<<<"b", "s", "k", "y", ".", "a", "p", "p">>, "bluesky">>,
    <<<<"g", "i", "t", "h", "u", "b", ".", "c", "o", "m">>, "github">>,
    <<<<"m", "e", "d", "i", "u", "m", ".", "c", "o", "m">>, "medium">>>>

\* String.prototype.includes
includes(t, sub) ==
  \E i \in 0..(Len(t) - Len(sub)) : SubSeq(t, i + 1, i + Len(sub)) = sub

\* String.prototype.startsWith
startsWith(t, pre) == Len(t) >= Len(pre) /\ SubSeq(t, 1, Len(pre)) = pre

\* line 470: the buttons the script reads
eligible(href) ==
  /\ href # <<>>
  /\ startsWith(href, <<"h", "t", "t", "p">>)
  /\ ~includes(href, <<"s", "u", "b", "s", "t", "a", "c", "k", ".", "c", "o", "m">>)

\* lines 471-475: the name of the first domain of the table the lowered
\* address contains, "other" when it contains none
platform_of(href) ==
  LET urlLower == lower_text(href)
      hits == {i \in 1..Len(platformMap) : includes(urlLower, platformMap[i][1])}
  IN IF hits = {} THEN "other"
     ELSE platformMap[CHOOSE i \in hits : \A j \in hits : i <= j][2]

RECURSIVE socialLinks(_, _)
\* lines 468-479: the mapping after the first n buttons; a platform keeps the
\* first address it was given
socialLinks(buttons, n) ==
  IF n = 0 THEN NoLinks
  ELSE LET before == socialLinks(buttons, n - 1)
           href == buttons[n]
       IN IF eligible(href) /\ platform_of(href) \notin DOMAIN before
            THEN [p \in DOMAIN before \cup {platform_of(href)} |->
                    IF p \in DOMAIN before THEN before[p] ELSE href]
            ELSE before

\* line 479: what the script returns for the buttons of a page
link_script(buttons) == socialLinks(buttons, Len(buttons))

\* One run over one source that lists one profile, with no threshold and no
\* allow-list, on a page of 500 subscribers that holds up to MaxButtons
\* buttons, each with one of the addresses below.
MaxButtons == 2

HrefTwitter == <<"h", "t", "t", "p", "s", ":", "/", "/", "t", "w", "i", "t", "t", "e", "r", ".", "c", "o", "m", "/", "h">>

HrefX == <<"h", "t", "t", "p", "s", ":", "/", "/", "x", ".", "c", "o", "m", "/", "h">>

HrefInstagram == <<"h", "t", "t", "p", "s", ":", "/", "/", "i", "n", "s", "t", "a", "g", "r", "a", "m", ".", "c", "o", "m", "/", "h">>

HrefFacebook == <<"h", "t", "t", "p", "s", ":", "/", "/", "f", "a", "c", "e", "b", "o", "o", "k", ".", "c", "o", "m", "/", "h">>

HrefLinkedIn == <<"h", "t", "t", "p", "s", ":", "/", "/", "w", "w", "w", ".", "l", "i", "n", "k", "e", "d", "i", "n", ".", "c", "o", "m", "/", "i", "n", "/", "h">>

HrefTikTok == <<"h", "t", "t", "p", "s", ":", "/", "/", "t", "i", "k", "t", "o", "k", ".", "c", "o", "m", "/", "@", "h">>

HrefYouTube == <<"h", "t", "t", "p", "s", ":", "/", "/", "y", "o", "u", "t", "u", "b", "e", ".", "c", "o", "m", "/", "h">>

HrefLinktree == <<"h", "t", "t", "p", "s", ":", "/", "/", "l", "i", "n", "k", "t", "r", ".", "e", "e", "/", "h">>

HrefThreads == <<"h", "t", "t", "p", "s", ":", "/", "/", "t", "h", "r", "e", "a", "d", "s", ".", "n", "e", "t", "/", "@", "h">>

HrefBluesky == <<"h", "t", "t", "p", "s", ":", "/", "/", "b", "s", "k", "y", ".", "a", "p", "p", "/", "h">>

HrefGitHub == <<"h", "t", "t", "p", "s", ":", "/", "/", "G", "i", "t", "H", "u", "b", ".", "c", "o", "m", "/", "h">>

HrefMedium == <<"h", "t", "t", "p", "s", ":", "/", "/", "m", "e", "d", "i", "u", "m", ".", "c", "o", "m", "/", "@", "h">>

HrefOther == <<"h", "t", "t", "p", "s", ":", "/", "/", "e", "x", "a", "m", "p", "l", "e", ".", "o", "r", "g", "/", "h">>

HrefDropbox == <<"h", "t", "t", "p", "s", ":", "/", "/", "w", "w", "w", ".", "d", "r", "o", "p", "b", "o", "x", ".", "c", "o", "m", "/", "h">>

HrefSubstack == <<"h", "t", "t", "p", "s", ":", "/", "/", "h", ".", "s", "u", "b", "s", "t", "a", "c", "k", ".", "c", "o", "m", "/">>

HrefViaSubstack == <<"h", "t", "t", "p", "s", ":", "/", "/", "e", "x", "a", "m", "p", "l", "e", ".", "o", "r", "g", "/", "?", "v", "i", "a", "=", "s", "u", "b", "s", "t", "a", "c", "k", ".", "c", "o", "m">>

HrefMailto == <<"m", "a", "i", "l", "t", "o", ":", "h", "@", "e", "x", "a", "m", "p", "l", "e", ".", "o", "r", "g">>

HrefEmpty == <<>>

Hrefs ==
  {HrefTwitter, HrefX, HrefInstagram, HrefFacebook, HrefLinkedIn,
   HrefTikTok, HrefYouTube, HrefLinktree, HrefThreads, HrefBluesky,
   HrefGitHub, HrefMedium, HrefOther, HrefDropbox, HrefSubstack,
   HrefViaSubstack, HrefMailto, HrefEmpty}

ButtonLists == UNION {[1..n -> Hrefs] : n \in 0..MaxButtons}

T500 == <<"5", "0", "0", " ", "s", "u", "b", "s", "c", "r", "i", "b", "e", "r", "s">>

\* a page whose buttons the link script reads
LinkBody(buttons) ==
  [kind |-> "profile", subscriber_text |-> T500,
   social_links |-> link_script(buttons), buttons |-> buttons]

LinkPages == {Page(TRUE, TRUE, LinkBody(b)) : b \in ButtonLists}

InitLinks ==
  /\ limits = [names |-> Names(1), listed |-> 1, runs |-> 1, io_failures |-> 0,
               pages |-> LinkPages]
  /\ urls = Sources(1)
  /\ config = ParseConfig
  /\ file = File(FALSE, <<>>)
  /\ Fresh

NextLinks ==
  \/ StartRun
  \/ SourcesExhausted
  \/ LoadLeaderboardFails
  \/ Discover
  \/ SourceDone
  \/ StartBatch
  \/ Navigate
  \/ Extract
  \/ BatchReturn
  \/ Persist
  \/ AfterBatch
  \/ Summary

SpecLinks == InitLinks /\ [][NextLinks]_vars

\* the host of an http(s) address: what stands between "//" and the next "/"
\* or "?"
host(href) ==
  LET rest == SubSeq(href, first(href, ":") + 3, Len(href))
      stop == IF first(rest, "/") < first(rest, "?") THEN first(rest, "/") ELSE first(rest, "?")
  IN lower_text(SubSeq(rest, 1, stop - 1))

\* the host is the domain or one of its subdomains
on_domain(h, domain) ==
  \/ h = domain
  \/ /\ Len(h) > Len(domain)
     /\ SubSeq(h, Len(h) - Len(domain), Len(h)) = <<".">> \o domain

\* an http(s) link that leaves the source platform
outbound(href) ==
  /\ startsWith(href, <<"h", "t", "t", "p">>)
  /\ ~on_domain(host(href), <<"s", "u", "b", "s", "t", "a", "c", "k", ".", "c", "o", "m">>)

\* the platform the table gives the domain of the address, "other" for a
\* domain that is not in the table
table_platform(href) ==
  LET hits == {i \in 1..Len(platformMap) : on_domain(host(href), platformMap[i][1])}
  IN IF hits = {} THEN "other" ELSE platformMap[CHOOSE i \in hits : TRUE][2]

\* C28: the links recorded for a page are its outbound links classified by
\* the domain table: every link stands under the platform of its domain,
\* "other" when the domain is not in the table; no link on the source
\* platform's own domain is recorded; every outbound link has its platform
\* recorded; and each platform holds the first of the page's links to it.
C28_LinkClassification ==
  (pc = "persist" /\ Len(pages) = 1 /\ outcome = <<"accept">>) =>
    LET links == batch_results[1].social_links
        buttons == OnlyBody.buttons
    IN /\ \A p \in DOMAIN links : outbound(links[p]) /\ table_platform(links[p]) = p
       /\ \A i \in 1..Len(buttons) :
            outbound(buttons[i]) =>
              /\ table_platform(buttons[i]) \in DOMAIN links
              /\ \E j \in 1..i :
                   /\ links[table_platform(buttons[i])] = buttons[j]
                   /\ \A k \in 1..(j - 1) :
                        outbound(buttons[k]) =>
                          table_platform(buttons[k]) # table_platform(buttons[i])

\* C28, on pages whose addresses contain a domain of the table or
\* "substack.com" only as their host
C28_OnPlainAddresses ==
  (/\ pc = "persist" /\ Len(pages) = 1 /\ outcome = <<"accept">>
   /\ \A i \in 1..Len(OnlyBody.buttons) :
        OnlyBody.buttons[i] \notin {HrefDropbox, HrefViaSubstack}) =>
    LET links == batch_results[1].social_links
        buttons == OnlyBody.buttons
    IN /\ \A p \in DOMAIN links : outbound(links[p]) /\ table_platform(links[p]) = p
       /\ \A i \in 1..Len(buttons) :
            outbound(buttons[i]) =>
              /\ table_platform(buttons[i]) \in DOMAIN links
              /\ \E j \in 1..i :
                   /\ links[table_platform(buttons[i])] = buttons[j]
                   /\ \A k \in 1..(j - 1) :
                        outbound(buttons[k]) =>
                          table_platform(buttons[k]) # table_platform(buttons[i])

\* ------------------------------------------------------- the output format
\* One run over two sources that list up to two profiles each, with the
\* [output] format set to csv or to json.
OutputFormats == {"csv", "json"}

InitFormat ==
  /\ limits = [names |-> Names(2), listed |-> 2, runs |-> 1, io_failures |-> 0,
               pages |-> PageKinds]
  /\ urls = Sources(2)
  /\ config \in {[c EXCEPT !.format = f] : c \in Configs, f \in OutputFormats}
  /\ file = File(FALSE, <<>>)
  /\ Fresh

NextFormat ==
  \/ StartRun
  \/ QuotaReached
  \/ SourcesExhausted
  \/ LoadLeaderboardFails
  \/ Discover
  \/ BatchQuotaBreak
  \/ SourceDone
  \/ StartBatch
  \/ Navigate
  \/ Extract
  \/ BatchReturn
  \/ Persist
  \/ AfterBatch
  \/ Summary

SpecFormat == InitFormat /\ [][NextFormat]_vars

\* C27: when the format is json, no step of the run appends a record to the
\* CSV store (the accepted records would be written once, as one array, when
\* the run ends).
C27_JsonModeAppendsNothing ==
  [][config.format = "json" => file' = file]_vars

\* ------------------------------------------------------------ the category
\* One run over five sources: a slug of the table, a slug of the table written
\* with a capital, a slug that is not in the table, the explore page, and a
\* leaderboard that is not a "rising" one.
CategoryUrls ==
  << <<"https:", "", "substack.com", "leaderboard", "technology", "rising">>,
     <<"https:", "", "substack.com", "leaderboard", "Food", "rising">>,
     <<"https:", "", "substack.com", "leaderboard", "crypto", "rising">>,
     <<"https:", "", "substack.com", "explore">>,
     <<"https:", "", "substack.com", "leaderboard", "culture", "paid">> >>

InitCategory ==
  /\ limits = [names |-> Names(3), listed |-> 1, runs |-> 1, io_failures |-> 0,
               pages |-> PageKinds]
  /\ urls = CategoryUrls
  /\ config \in {c \in Configs : c.max_profiles = MaxQuota /\ c.concurrent_profiles = 1}
  /\ file = File(FALSE, <<>>)
  /\ Fresh

NextCategory ==
  \/ StartRun
  \/ QuotaReached
  \/ SourcesExhausted
  \/ LoadLeaderboardFails
  \/ Discover
  \/ SourceDone
  \/ StartBatch
  \/ Navigate
  \/ Extract
  \/ BatchReturn
  \/ Persist
  \/ AfterBatch
  \/ Summary

SpecCategory == InitCategory /\ [][NextCategory]_vars

\* the label of each source of CategoryUrls
CategoryLabels == <<"Technology", "Food & Drink", "Crypto", "Explore", "Explore">>

\* C29: a record accepted under a source carries the label of that source
\* (the title of the table for its slug, the title-cased slug when the table
\* has none), the row appended for it carries that label in the Category
\* column, and no step changes the Category of a row already stored.
C29_CategoryFixedAtDiscovery ==
  /\ [](\A i \in 1..Len(batch_results) :
          batch_results[i].category = CategoryLabels[url_idx])
  /\ [][Len(file'.rows) > Len(file.rows) =>
          file'.rows[Len(file'.rows)][Len(get_csv_header)] = CategoryLabels[url_idx]]_vars
  /\ [][\A i \in 1..Len(file.rows) :
          /\ i <= Len(file'.rows)
          /\ file'.rows[i][Len(get_csv_header)] = file.rows[i][Len(get_csv_header)]]_vars

\* C29 witness: a row was stored under the source whose slug is written with
\* a capital, with the title of the table.
C29_Witness ==
  /\ Len(file.rows) >= 2
  /\ file.rows[Len(file.rows)][Len(get_csv_header)] = "Food & Drink"
  /\ url_idx = 2

\* C30: a step of the extraction loop is taken only when a goto has been
\* issued on every page of the batch, in the order of the batch list, and
\* the settle delay has been slept after the last of them; the step is on the
\* page that follows, in the batch list, the pages already handled.
C30_NavigateAllThenExtract ==
  [][Len(outcome') > Len(outcome) =>
       /\ nav_i = Len(pages) + 1
       /\ Len(navigated) >= Len(pages)
       /\ \A i \in 1..Len(pages) :
            /\ web.profile[UsernameOf(pages[i])].seen
            /\ navigated[Len(navigated) - Len(pages) + i] = UsernameOf(pages[i])
       /\ slept = <<"page_wait_ms">>
       /\ ext_i = Len(outcome) + 1
       /\ Len(outcome') = ext_i]_vars

\* C30 witness: in a batch of two whose first goto raised, the first page has
\* been handled and the second has not; both gotos were issued.
C30_Witness ==
  /\ pc = "extract"
  /\ Len(pages) = 2
  /\ Len(outcome) = 1
  /\ nav_i = 3
  /\ 1 \in nav_failed

\* the platform whose link a column of the header holds
ColumnPlatform ==
  [Twitter |-> "twitter", Instagram |-> "instagram", TikTok |-> "tiktok",
   LinkedIn |-> "linkedin", Facebook |-> "facebook", YouTube |-> "youtube",
   Linktree |-> "linktree", Threads |-> "threads", Bluesky |-> "bluesky",
   GitHub |-> "github", Medium |-> "medium", Other |-> "other"]

\* C26: the header is Username, Profile URL, Subscribers, the eleven platform
\* columns, Other, Scraped At, Category, and every row appended for a record
\* has as many fields as the header, each holding what the name of its column
\* says: the record's handle, address, count, time and category, and in the
\* column of a platform the record's link to that platform, or the empty
\* field when the record has none.
C26_ColumnOrder ==
  [][Len(file'.rows) > Len(file.rows) =>
       LET header == file'.rows[1]
           row == file'.rows[Len(file'.rows)]
           p == batch_results[save_i]
       IN /\ header = <<"Username", "Profile URL", "Subscribers", "Twitter", "Instagram",
                        "TikTok", "LinkedIn", "Facebook", "YouTube", "Linktree", "Threads",
                        "Bluesky", "GitHub", "Medium", "Other", "Scraped At", "Category">>
          /\ Len(row) = Len(header)
          /\ \A c \in 1..Len(header) :
               row[c] =
                 CASE header[c] = "Username" -> p.username
                   [] header[c] = "Profile URL" -> p.profile_url
                   [] header[c] = "Subscribers" -> p.subscriber_count
                   [] header[c] = "Scraped At" -> p.scraped_at
                   [] header[c] = "Category" -> p.category
                   [] OTHER ->
                        IF ColumnPlatform[header[c]] \in DOMAIN p.social_links
                          THEN p.social_links[ColumnPlatform[header[c]]]
                          ELSE ""]_vars

\* C26 witness: a row was stored for a record with a Twitter link and no other
\* link: the fourth field is the link and the fifth is empty.
C26_Witness ==
  /\ Len(file.rows) = 2
  /\ file.rows[2][4] = "https://x.com/h"
  /\ file.rows[2][5] = ""
  /\ file.rows[2][15] = ""

\* the candidates of the current batch whose key is not in the Dedup Set
FreshCandidates ==
  {i \in 1..Len(pages) : lower(UsernameOf(pages[i])) \notin existing_usernames}

shared_state ==
  <<existing_usernames, total_processed, results, skipped_count, error_count, file>>

\* C32: no step taken while scrape_profile_batch runs (the gotos, the
\* extraction loop, the closing of the contexts) changes the Dedup Set, the
\* Quota Counter, the Run Statistics or the durable store; within a run they
\* change only in the driver, between batches.
C32_SharedStateUntouchedDuringBatch ==
  /\ [][(pc \in {"navigate", "extract"}) => (shared_state' = shared_state)]_vars
  /\ [][shared_state' # shared_state => pc \in {"idle", "source", "persist"}]_vars

\* C32 witness: in the middle of the extraction of a batch of two, a record
\* has been accepted and its key is not in the Dedup Set, no row has been
\* stored and the counters are at zero.
C32_Witness ==
  /\ pc = "extract"
  /\ Len(pages) = 2
  /\ ext_i = 2
  /\ Len(batch_results) = 1
  /\ new_users # {}
  /\ new_users \cap existing_usernames = {}
  /\ total_processed = 0
  /\ file.rows = <<>>

\* ------------------------------------------------------------ the sessions
\* One run over two sources that list up to two profiles each, in batches of
\* one or two, where opening the contexts of a batch can raise.
InitSessions ==
  /\ limits = [names |-> Names(2), listed |-> 2, runs |-> 1, io_failures |-> 0,
               pages |-> PageKinds]
  /\ urls = Sources(2)
  /\ config \in Configs
  /\ file = File(FALSE, <<>>)
  /\ Fresh

NextSessions ==
  \/ StartRun
  \/ QuotaReached
  \/ SourcesExhausted
  \/ LoadLeaderboardFails
  \/ Discover
  \/ BatchQuotaBreak
  \/ SourceDone
  \/ StartBatch
  \/ OpenContextFails
  \/ Navigate
  \/ Extract
  \/ BatchReturn
  \/ Persist
  \/ AfterBatch
  \/ Summary

SpecSessions == InitSessions /\ [][NextSessions]_vars

\* C33: outside scrape_profile_batch no context opened for a batch is open:
\* every context is closed when the batch returns or raises, whatever the
\* outcomes of its candidates and also when opening the contexts raised, and
\* a batch starts with no context left over from an earlier one.
C33_SessionsReleased ==
  pc \notin {"navigate", "extract"} => contexts = 0

\* C34: every batch handed to scrape_profile_batch has between 1 and
\* concurrent_profiles candidates; the batches of a source are the consecutive
\* slices of the discovery output, each taken when the ones before it were
\* handed over, and the source is left only when the slices have covered the
\* whole output; and at no time are more than concurrent_profiles contexts
\* open.
C34_BoundedConcurrency ==
  /\ []((pc \in {"navigate", "extract", "persist"}) =>
          (Len(pages) >= 1 /\ Len(pages) <= config.concurrent_profiles))
  /\ [][(pc = "batch" /\ pc' = "navigate") =>
          /\ pages' = SubSeq(profile_urls, batch_start + 1, batch_start + Len(pages'))
          /\ \A i \in 1..batch_start : UsernameOf(profile_urls[i]) \in Range(navigated)]_vars
  /\ [][(pc = "batch" /\ pc' = "source") => batch_start >= Len(profile_urls)]_vars
  /\ [](contexts <= config.concurrent_profiles)

\* C34, what the batch loop does keep: the size of a batch, the slices taken
\* in order, never more than concurrent_profiles contexts opened by one
\* batch, and a source left before its last slice only when the quota is met
\* or the opening of a batch raised.
C34_BatchesAreSlices ==
  /\ []((pc \in {"navigate", "extract", "persist"}) =>
          (Len(pages) >= 1 /\ Len(pages) <= config.concurrent_profiles))
  /\ [][(pc = "batch" /\ pc' = "navigate") =>
          /\ pages' = SubSeq(profile_urls, batch_start + 1, batch_start + Len(pages'))
          /\ \A i \in 1..batch_start : UsernameOf(profile_urls[i]) \in Range(navigated)
          /\ contexts' - contexts = Len(pages')]_vars
  /\ [][(pc = "batch" /\ pc' = "source") =>
          \/ batch_start >= Len(profile_urls)
          \/ quota_met(total_processed, config)
          \/ error_count' = error_count + 1]_vars

====
